---- MODULE Spec2Model ----
(***************************************************************************)
(* Model of the error-enhancement helpers (src/src/utils/testHelpers.ts)   *)
(* and of the Cucumber lifecycle hooks (src/src/config/world.ts) of the    *)
(* BDD Playwright framework.                                               *)
(*                                                                         *)
(* Strings are sequences of tokens.  A token is an indivisible piece of    *)
(* text; every substring the code searches for with String.includes is one *)
(* token, so `s.includes(t)` is "t occurs in s" and string concatenation   *)
(* is \o.  The fixed lines that enhanceError emits are token sequences in  *)
(* which the searched substrings they happen to contain are kept as        *)
(* separate tokens (for instance "Element is not visible" holds the token  *)
(* "not visible").                                                         *)
(***************************************************************************)
EXTENDS Integers, Sequences, FiniteSets, TLC

VARIABLES
    \* ---- testHelpers.ts: one call of enhanceError / executeStep ----
    rawError,     \* the value the operation rejects with: [name, message, stack]
    stepName,     \* the stepName argument
    context,      \* the additionalContext / context argument (<<>>: absent or "")
    phase,        \* "input" | "enhanced" | "executed"
    enhanced,     \* the Error returned by enhanceError: [name, message]
    opOutcome,    \* what the operation given to executeStep did: [ok, value]
    execResult,   \* outcome of executeStep: [kind, value, error, calls]
    \* ---- world.ts: one lane of the Cucumber runner ----
    hpc,          \* "start" | "ready" | "running" | "finishing": where the lane is
    debugAll,     \* process.env.SCREENSHOT_ALL_STEPS === 'true'
    parameters,   \* this.parameters: [scenarioName, stepIndex]
    world,        \* fields of the CustomWorld: [browser, context, page], "unset" | "set"
    env,          \* the Playwright side: [browserOpen, tracing, pageUsable]
    pickle,       \* the runner's scenario: [name, status, afterSteps, scenarios,
                  \* captures], captures = step screenshots taken in it
    now,          \* the value Date.now() returned last
    files,        \* names of the files in reports/screenshots
    stepScreenshots,  \* global.stepScreenshots: set of [key, value]
    lastHook,     \* what the most recent hook did (observation)
    dirExists,    \* fs.existsSync of reports/screenshots
    cleared,      \* what the calls of clearScreenshots did (observation)
    \* ---- the name normalization and generateAllureResults.js ----
    rpc,          \* "idle" | "input" | "normalized" | "generated"
    rawName,      \* the string given to the normalization
    cleanName,    \* the string it returned
    passes,       \* how many times the normalization was applied
    scenario,     \* a scenario of reports/cucumber-report.json: [name, steps]
    mtime,        \* statSync(file).mtime of every file of reports/screenshots
    produced,     \* the captures made for steps of the scenario: [step, file]
    allure,       \* the result written for the scenario: [status, steps]
    \* ---- world.ts run by parallel lanes (worker processes) ----
    lane,         \* per lane: [pc, parameters, name, afterSteps, status, scenarios,
                  \* page, pageUsable, index, last]
    laneFiles,    \* names of the files in the shared reports/screenshots
    laneCaptured, \* the files written by the captures of this run (observation)
    laneNow,      \* the value Date.now() returned last, in any lane
    laneDebug,    \* process.env.SCREENSHOT_ALL_STEPS === 'true'
    \* ---- testHelpers.ts: one call of safeClick, one of waitForElementStable ----
    click,        \* [pc, retries, i, attempts, clicks, caught, result, thrown]
    stable        \* [pc, previousBox, currentBox, attempts, samples, result]

helperVars == <<rawError, stepName, context, phase, enhanced, opOutcome, execResult>>

hookVars == <<hpc, debugAll, parameters, world, env, pickle, now, files,
              stepScreenshots, lastHook, dirExists, cleared>>

reportVars == <<rpc, rawName, cleanName, passes, scenario, mtime, produced, allure>>

laneVars == <<lane, laneFiles, laneCaptured, laneNow, laneDebug>>

\* the variables of the specifications defined after the report generator
clickVars == <<click>>

stableVars == <<stable>>

otherVars == <<laneVars, clickVars, stableVars>>

vars == <<helperVars, hookVars, reportVars, otherVars>>

-----------------------------------------------------------------------------
(* Bounds *)

\* greatest number of tokens in a raw error message
MaxMsgLen == 2

\* greatest number of scenarios a lane runs
MaxScenarios == 2

\* greatest number of steps of a scenario
MaxSteps == 2

\* greatest value of the millisecond clock
MaxClock == 1
MaxClears == 2
MaxNameLen == 3
MaxReportSteps == 2

-----------------------------------------------------------------------------
(* Strings *)

NL == "\n"

\* String.prototype.includes for a searched substring that is one token
includes(s, t) == \E i \in 1..Len(s) : s[i] = t

\* String.prototype.includes for an arbitrary text: a contiguous occurrence
Contains(s, t) ==
    \E i \in 0..(Len(s) - Len(t)) : \A j \in 1..Len(t) : s[i + j] = t[j]

\* The substrings enhanceError searches for, and one neutral word
MessageTokens ==
    << "timeout", "waiting for locator", "navigation", "waiting for selector",
       "Element is not attached", "not visible", "not enabled", "disabled",
       "not clickable", "intercepted", "Navigation", "expect", "failed" >>

RECURSIVE TextOf(_, _)
\* the tokens of MessageTokens whose positions are in S, from position i on
TextOf(S, i) ==
    IF i > Len(MessageTokens) THEN <<>>
    ELSE (IF i \in S THEN <<MessageTokens[i]>> ELSE <<>>) \o TextOf(S, i + 1)

\* raw error messages: every choice of at most MaxMsgLen tokens
Messages ==
    { TextOf(S, 1) : S \in { T \in SUBSET (1..Len(MessageTokens)) :
                                 Cardinality(T) <= MaxMsgLen } }

\* error.name; "" stands for a missing or empty name (both are falsy)
Names == {"Error", "TimeoutError", "AssertionError", "CustomError", ""}

StepNames == { <<"Click button">>, <<"Verify", "page title">> }

\* <<>> stands for an absent or empty context (both are falsy)
Contexts == { <<>>, <<"Check the selector">>, <<"Check the ", "timeout", " setting">> }

\* the selector argument of the page-object wrappers
Selectors == { <<"#submit">>, <<"button.", "disabled">> }

\* error.stack of an Error object: "Name: message\n    at ..."
StackOf(name, message) ==
    <<(IF name = "" THEN "Error" ELSE name), ": ">> \o message \o <<NL, "    at frame">>

RawErrors ==
    { [name |-> n, message |-> m, stack |-> s] :
        n \in Names, m \in Messages, s \in {<<>>} }
    \cup
    { [name |-> n, message |-> m, stack |-> StackOf(n, m)] :
        n \in Names, m \in Messages }

-----------------------------------------------------------------------------
(* enhanceError: the fixed lines *)

HeaderLine(S)     == <<"Step Failed: \"">> \o S \o <<"\"", NL>>
TimeoutLabel      == <<"Timeout Error: Operation timed out", NL>>
NoteLocator       == <<"Issue: Element not found or not interactive", NL>>
NoteNavigation    == <<"Issue: Page ", "navigation", " timed out", NL>>
NoteSelector      == <<"Issue: Selector not found within ", "timeout", " period", NL>>
StaleLabel        == <<"Stale Element Error: Element no longer exists in DOM", NL>>
VisibilityLabel   == <<"Visibility Error: Element is ", "not visible", NL>>
InteractionLabel  == <<"Interaction Error: Element is ", "disabled", NL>>
ClickLabel        == <<"Click Error: Element is ", "not clickable", " or is being covered", NL>>
NavigationLabel   == <<"Navigation", " Error: Failed to navigate to page", NL>>
AssertionLabel    == <<"Assertion Error: Expected condition was not met", NL>>
UnknownLabel(n)   == <<"Unknown Error: ", (IF n # "" THEN n ELSE "UnknownError"), NL>>
OriginalLine(m)   == <<"Original Error: ">> \o m \o <<NL>>
ContextLine(c)    == <<"Context: ">> \o c \o <<NL>>
TimeoutSuggestions ==
    << "Suggestions:", NL,
       "   Increase ", "timeout", " if operation needs more time", NL,
       "   Check if element selector is correct", NL,
       "   Verify page is fully loaded", NL >>
VisibilitySuggestions ==
    << "Suggestions:", NL,
       "   Check if element is hidden by CSS", NL,
       "   Scroll element into view", NL,
       "   Wait for animations to complete", NL >>
StackLine(s)      == <<"Stack Trace:", NL>> \o s

-----------------------------------------------------------------------------
(* enhanceError *)

\* testHelpers.ts 19-33: the else-if chain after the timeout test
OtherKindLines(error) ==
    LET m == error.message IN
    IF error.name = "Error" /\ includes(m, "Element is not attached") THEN StaleLabel
    ELSE IF includes(m, "not visible") THEN VisibilityLabel
    ELSE IF includes(m, "not enabled") \/ includes(m, "disabled") THEN InteractionLabel
    ELSE IF includes(m, "not clickable") \/ includes(m, "intercepted") THEN ClickLabel
    ELSE IF includes(m, "Navigation") THEN NavigationLabel
    ELSE IF error.name = "AssertionError" \/ includes(m, "expect") THEN AssertionLabel
    ELSE UnknownLabel(error.name)

\* Faulty variant: the timeout test looks at the name only
KindLines_NameOnly(error) ==
    IF error.name = "TimeoutError" THEN TimeoutLabel ELSE OtherKindLines(error)

\* Faulty variant: the visibility test comes before the stale-element test
KindLines_VisibleFirst(error) ==
    LET m == error.message IN
    IF error.name = "TimeoutError" \/ includes(m, "timeout") THEN TimeoutLabel
    ELSE IF includes(m, "not visible") THEN VisibilityLabel
    ELSE OtherKindLines(error)

\* Faulty variant: the click test comes before the disabled test
KindLines_ClickFirst(error) ==
    LET m == error.message IN
    IF error.name = "TimeoutError" \/ includes(m, "timeout") THEN TimeoutLabel
    ELSE IF error.name = "Error" /\ includes(m, "Element is not attached") THEN StaleLabel
    ELSE IF includes(m, "not visible") THEN VisibilityLabel
    ELSE IF includes(m, "not clickable") \/ includes(m, "intercepted") THEN ClickLabel
    ELSE OtherKindLines(error)

\* testHelpers.ts 10-33: the if / else-if chain that emits the kind label
\* faulty variant: every note whose trigger occurs is emitted
KindLines_AllNotes(error) ==
    LET m == error.message IN
    IF error.name = "TimeoutError" \/ includes(m, "timeout") THEN
        TimeoutLabel \o
        (IF includes(m, "waiting for locator") THEN NoteLocator ELSE <<>>) \o
        (IF includes(m, "navigation") THEN NoteNavigation ELSE <<>>) \o
        (IF includes(m, "waiting for selector") THEN NoteSelector ELSE <<>>)
    ELSE OtherKindLines(error)

KindLines(error) ==
    LET m == error.message IN
    IF error.name = "TimeoutError" \/ includes(m, "timeout") THEN
        TimeoutLabel \o
        ( IF includes(m, "waiting for locator") THEN NoteLocator
          ELSE IF includes(m, "navigation") THEN NoteNavigation
          ELSE IF includes(m, "waiting for selector") THEN NoteSelector
          ELSE <<>> )
    ELSE OtherKindLines(error)

\* testHelpers.ts 41-52: the suggestions block
SuggestionLines(error) ==
    IF includes(error.message, "timeout") THEN TimeoutSuggestions
    ELSE IF includes(error.message, "not visible") THEN VisibilitySuggestions
    ELSE <<>>

\* Faulty variant: the line quotes the error's name instead of its message
OriginalErrorLines_Name(error) == OriginalLine(<<error.name>>)

\* testHelpers.ts 35: the line quoting the original message
OriginalErrorLines(error) == OriginalLine(error.message)

\* testHelpers.ts 6-61
enhanceError(error, step, ctx) ==
    LET errorMessage ==
            HeaderLine(step)
            \o KindLines(error)
            \o OriginalErrorLines(error)
            \o (IF ctx # <<>> THEN ContextLine(ctx) ELSE <<>>)
            \o SuggestionLines(error)
            \o (IF error.stack # <<>> THEN StackLine(error.stack) ELSE <<>>)
    IN  [ name    |-> IF error.name # "" THEN error.name ELSE "StepExecutionError",
          message |-> errorMessage ]

-----------------------------------------------------------------------------
(* TestHelpers.executeStep *)

Values == {"v1", "v2"}
NoValue == "none"
NoError == [name |-> "", message |-> <<>>]

OpOutcomes == { [ok |-> TRUE, value |-> v] : v \in Values }
              \cup { [ok |-> FALSE, value |-> NoValue] }

\* Faulty variant: a failure is logged and turned into an undefined return value
ExecuteStepResult_Swallow(step, outcome, error, ctx) ==
    IF outcome.ok
    THEN [kind |-> "returned", value |-> outcome.value, error |-> NoError, calls |-> 1]
    ELSE [kind |-> "returned", value |-> NoValue, error |-> NoError, calls |-> 1]

\* testHelpers.ts 188-201: `await operation()` is evaluated once; its value is
\* returned, its rejection `error` (outcome.ok is FALSE) is enhanced and thrown.
\* calls: the number of invocations of the operation.
ExecuteStepResult(step, outcome, error, ctx) ==
    IF outcome.ok
    THEN [kind |-> "returned", value |-> outcome.value, error |-> NoError, calls |-> 1]
    ELSE [kind |-> "threw", value |-> NoValue,
          error |-> enhanceError(error, step, ctx), calls |-> 1]

\* values that JavaScript lets an operation throw and that are no Error
\* objects, with the text `${value}` gives
NonErrors ==
    { [type |-> "string",    text |-> <<"boom">>],
      [type |-> "null",      text |-> <<"null">>],
      [type |-> "undefined", text |-> <<"undefined">>] }

\* what error.name, error.message and error.stack give on a string: all
\* three are undefined, `${error.message}` is "undefined" and
\* error.message?.includes(...) is never true
PropertiesOf(v) == [name |-> "", message |-> <<"undefined">>, stack |-> <<>>]

\* testHelpers.ts 6-61 applied to a thrown value that is no Error: reading
\* error.name at line 10 throws a TypeError when the value is null or undefined
enhanceNonError(v, step, ctx) ==
    IF v.type \in {"null", "undefined"}
    THEN [ threw |-> TRUE,
           error |-> [ name |-> "TypeError",
                       message |-> <<"Cannot read properties of ", v.type,
                                     " (reading 'name')">> ] ]
    ELSE [ threw |-> FALSE, error |-> enhanceError(PropertiesOf(v), step, ctx) ]

-----------------------------------------------------------------------------
(* TestHelpers.waitForElementWithContext, clickWithContext, typeWithContext *)

\* the Error object built at testHelpers.ts 58-59 as a catch block sees it:
\* its stack was captured by `new Error(errorMessage)`, before the name was set
ErrorObject(e) == [name |-> e.name, message |-> e.message, stack |-> StackOf("", e.message)]

\* testHelpers.ts 214-217: what waitForElementWithContext throws when the
\* wait rejects with `error`
WaitError(sel, error, ctx) ==
    enhanceError(error, <<"Wait for element">>,
                 IF ctx # <<>> THEN ctx ELSE <<"Waiting for element: ">> \o sel)

\* the default context of clickWithContext (234) and typeWithContext (252)
DefaultContext(op, sel) ==
    IF op = "click" THEN <<"Clicking element: ">> \o sel
    ELSE <<"Typing into element: ">> \o sel

\* what the wrapped calls can do: the wait rejects, the click or fill (or the
\* stability wait) rejects, or all of them resolve
WrapOutcomes == { "waitFails", "actionFails", "ok" }

\* testHelpers.ts 223-236 and 241-254.  inner: the error thrown by the wait
\* phase; error: the error that propagates to the caller.
WithContextResult(op, sel, step, outcome, error, ctx) ==
    LET outerCtx == IF ctx # <<>> THEN ctx ELSE DefaultContext(op, sel)
        inner    == WaitError(sel, error, ctx)
    IN  CASE outcome = "ok" ->
               [kind |-> "returned", inner |-> NoError, error |-> NoError]
          [] outcome = "actionFails" ->
               [kind |-> "threw", inner |-> NoError,
                error |-> enhanceError(error, step, outerCtx)]
          [] outcome = "waitFails" ->
               [kind |-> "threw", inner |-> inner,
                error |-> enhanceError(ErrorObject(inner), step, outerCtx)]

-----------------------------------------------------------------------------
(* The lane of world.ts before anything has run *)

\* world.ts 48-50: the fields of a newly constructed CustomWorld
FreshWorld == [browser |-> "unset", context |-> "unset", page |-> "unset"]

\* no browser, no tracing, no page on the Playwright side
NoEnv == [browserOpen |-> FALSE, tracing |-> "off", pageUsable |-> FALSE]

\* no hook has run yet
NoHook ==
    [ hook |-> "none", threw |-> FALSE, shot |-> "none", logged |-> FALSE,
      hadContext |-> FALSE, hadBrowser |-> FALSE,
      stopAttempted |-> FALSE, closeAttempts |-> 0, closeRejections |-> 0,
      status |-> "none", shotIndex |-> 0 ]

NoScenario == [name |-> <<>>, steps |-> <<>>]

NoAllure == [status |-> "none", steps |-> <<>>]

\* the report-side variables while the hooks or the helpers are exercised
ReportAtRest ==
    /\ rpc = "idle"
    /\ rawName = <<>>
    /\ cleanName = <<>>
    /\ passes = 0
    /\ scenario = NoScenario
    /\ mtime = <<>>
    /\ produced = {}
    /\ allure = NoAllure

\* the parallel lanes before the runner has started a worker
LanesAtRest ==
    /\ lane = <<>>
    /\ laneFiles = {}
    /\ laneCaptured = {}
    /\ laneNow = 0
    /\ laneDebug = FALSE

\* no error caught yet in safeClick
NoCaught == [attempt |-> 0, at |-> "none"]

\* safeClick not called
ClickAtRest ==
    click = [ pc |-> "idle", retries |-> 0, i |-> 0, attempts |-> 0, clicks |-> 0,
              caught |-> NoCaught, result |-> "none", thrown |-> NoCaught ]

\* element.boundingBox() resolved with null
NullBox == [null |-> TRUE, x |-> 0, y |-> 0]

\* waitForElementStable not called
StableAtRest ==
    stable = [ pc |-> "idle", previousBox |-> NullBox, currentBox |-> NullBox,
               attempts |-> 0, samples |-> 0, result |-> "none" ]

OthersAtRest == LanesAtRest /\ ClickAtRest /\ StableAtRest

NoClear == [calls |-> 0, logged |-> FALSE, count |-> 0, deleted |-> 0, threw |-> FALSE]

\* the lane variables while only the helpers are exercised
HooksAtRest ==
    /\ hpc = "start"
    /\ debugAll = FALSE
    /\ parameters = [scenarioName |-> <<>>, stepIndex |-> 0]
    /\ world = FreshWorld
    /\ env = NoEnv
    /\ pickle = [name |-> <<>>, status |-> "UNKNOWN", afterSteps |-> 0, scenarios |-> 0,
                 captures |-> 0]
    /\ now = 0
    /\ files = {}
    /\ stepScreenshots = {}
    /\ lastHook = NoHook
    /\ dirExists = FALSE
    /\ cleared = NoClear

-----------------------------------------------------------------------------
(* Specification of the helpers: the arguments are drawn, then one call is  *)
(* made.                                                                    *)

HelperInit ==
    /\ OthersAtRest
    /\ ReportAtRest
    /\ rawError \in RawErrors
    /\ stepName \in StepNames
    /\ context \in Contexts
    /\ phase = "input"
    /\ enhanced = NoError
    /\ opOutcome = [ok |-> TRUE, value |-> NoValue]
    /\ execResult = [kind |-> "none", value |-> NoValue, error |-> NoError, calls |-> 0]
    /\ HooksAtRest

\* a call enhanceError(rawError, stepName, context)
Enhance ==
    /\ phase = "input"
    /\ enhanced' = enhanceError(rawError, stepName, context)
    /\ phase' = "enhanced"
    /\ UNCHANGED <<rawError, stepName, context, opOutcome, execResult>>
    /\ UNCHANGED hookVars
    /\ UNCHANGED reportVars
    /\ UNCHANGED otherVars

\* a call TestHelpers.executeStep(stepName, operation, context)
ExecuteStep ==
    /\ phase = "input"
    /\ \E o \in OpOutcomes :
        /\ opOutcome' = o
        /\ execResult' = ExecuteStepResult(stepName, o, rawError, context)
    /\ phase' = "executed"
    /\ UNCHANGED <<rawError, stepName, context, enhanced>>
    /\ UNCHANGED hookVars
    /\ UNCHANGED reportVars
    /\ UNCHANGED otherVars

\* a call TestHelpers.clickWithContext(page, selector, stepName, context) or
\* TestHelpers.typeWithContext(page, selector, text, stepName, context);
\* `enhanced` keeps the error thrown by the wait phase
WithContext ==
    /\ phase = "input"
    /\ \E op \in {"click", "type"}, sel \in Selectors, outcome \in WrapOutcomes :
        LET r == WithContextResult(op, sel, stepName, outcome, rawError, context) IN
        /\ opOutcome' = [ok |-> outcome = "ok", value |-> NoValue]
        /\ enhanced' = r.inner
        /\ execResult' = [kind |-> r.kind, value |-> NoValue, error |-> r.error,
                          calls |-> 1]
    /\ phase' = "wrapped"
    /\ UNCHANGED <<rawError, stepName, context>>
    /\ UNCHANGED hookVars
    /\ UNCHANGED reportVars
    /\ UNCHANGED otherVars

\* a call TestHelpers.executeStep(stepName, operation, context) whose
\* operation throws a value that is no Error; the catch at 198-200 passes the
\* value to enhanceError and an exception of enhanceError propagates
ExecuteStepNonError ==
    /\ phase = "input"
    /\ \E v \in NonErrors :
        LET r == enhanceNonError(v, stepName, context) IN
        /\ opOutcome' = [ok |-> FALSE, value |-> v.type]
        /\ execResult' = [kind |-> "threw", value |-> NoValue, error |-> r.error,
                          calls |-> 1]
    /\ phase' = "nonError"
    /\ UNCHANGED <<rawError, stepName, context, enhanced>>
    /\ UNCHANGED hookVars
    /\ UNCHANGED reportVars
    /\ UNCHANGED otherVars

HelperNext == Enhance \/ ExecuteStep \/ WithContext \/ ExecuteStepNonError

SpecHelpers == HelperInit /\ [][HelperNext]_vars

-----------------------------------------------------------------------------
(* Claims about enhanceError and executeStep (checked under SpecHelpers)    *)

Kinds == { "Timeout", "StaleElement", "NotVisible", "Disabled", "NotClickable",
           "NavigationFailure", "AssertionFailure", "Unknown" }

\* the text by which a kind's label line is recognised in a diagnostic
LabelText(k) ==
    CASE k = "Timeout"           -> TimeoutLabel
      [] k = "StaleElement"      -> StaleLabel
      [] k = "NotVisible"        -> VisibilityLabel
      [] k = "Disabled"          -> InteractionLabel
      [] k = "NotClickable"      -> ClickLabel
      [] k = "NavigationFailure" -> NavigationLabel
      [] k = "AssertionFailure"  -> AssertionLabel
      [] k = "Unknown"           -> <<"Unknown Error: ">>

\* the kinds whose label line occurs in the diagnostic text
EmittedKinds(text) == { k \in Kinds : Contains(text, LabelText(k)) }

Enhanced == phase = "enhanced"

\* C1: a raw error whose message contains "timeout" is classified as Timeout:
\* the diagnostic holds the Timeout label line and no other kind's label,
\* whatever the name and the other trigger substrings are.
C1_TimeoutWins ==
    (Enhanced /\ includes(rawError.message, "timeout"))
        => EmittedKinds(enhanced.message) = {"Timeout"}

C1_Witness ==
    /\ Enhanced
    /\ rawError.name = "Error"
    /\ includes(rawError.message, "timeout")
    /\ includes(rawError.message, "Element is not attached")
    /\ EmittedKinds(enhanced.message) = {"Timeout"}

RuleOrder ==
    << "Timeout", "StaleElement", "NotVisible", "Disabled", "NotClickable",
       "NavigationFailure", "AssertionFailure" >>

\* rule i as the claim C3 (with the specification's rules 1 and 2) states it
StatedRule(i, e) ==
    CASE i = 1 -> e.name = "TimeoutError" \/ includes(e.message, "timeout")
      [] i = 2 -> includes(e.message, "Element is not attached")
      [] i = 3 -> includes(e.message, "not visible")
      [] i = 4 -> includes(e.message, "not enabled") \/ includes(e.message, "disabled")
      [] i = 5 -> includes(e.message, "not clickable") \/ includes(e.message, "intercepted")
      [] i = 6 -> includes(e.message, "Navigation")
      [] i = 7 -> e.name = "AssertionError" \/ includes(e.message, "expect")

\* rule i as amended: the stale-element rule also asks for the name "Error"
AmendedRule(i, e) ==
    IF i = 2 THEN e.name = "Error" /\ includes(e.message, "Element is not attached")
    ELSE StatedRule(i, e)

\* the kind of the first rule of RuleOrder that matches, Unknown when none does
FirstMatch(Rule(_, _), e) ==
    IF \E i \in 1..Len(RuleOrder) : Rule(i, e)
    THEN RuleOrder[CHOOSE i \in 1..Len(RuleOrder) :
                        Rule(i, e) /\ \A j \in 1..(i - 1) : ~Rule(j, e)]
    ELSE "Unknown"

C4_SuggestionsFollowKind ==
    Enhanced =>
        /\ Contains(enhanced.message, TimeoutSuggestions)
              <=> EmittedKinds(enhanced.message) = {"Timeout"}
        /\ Contains(enhanced.message, VisibilitySuggestions)
              <=> EmittedKinds(enhanced.message) = {"NotVisible"}

\* C5: the diagnostic contains the literal step name and the literal original
\* message of the raw error, for every raw error, step name and context.
C5_KeepsStepAndMessage ==
    Enhanced =>
        /\ Contains(enhanced.message, stepName)
        /\ Contains(enhanced.message, rawError.message)

C5_Witness ==
    /\ Enhanced
    /\ Len(rawError.message) = MaxMsgLen
    /\ rawError.stack = <<>>
    /\ context # <<>>
    /\ Len(stepName) = 2
    /\ Contains(enhanced.message, stepName)
    /\ Contains(enhanced.message, rawError.message)

\* C6: executeStep invokes the operation exactly once; when the operation
\* resolves it returns exactly the operation's result; when the operation fails
\* it throws the enhanced error and returns no value.
C6_NeverSuppresses ==
    phase = "executed" =>
        /\ execResult.calls = 1
        /\ opOutcome.ok =>
              /\ execResult.kind = "returned"
              /\ execResult.value = opOutcome.value
        /\ ~opOutcome.ok =>
              /\ execResult.kind = "threw"
              /\ execResult.value = NoValue
              /\ execResult.error = enhanceError(rawError, stepName, context)

C6_WitnessThrew ==
    /\ phase = "executed"
    /\ ~opOutcome.ok
    /\ execResult.kind = "threw"
    /\ Contains(execResult.error.message, rawError.message)
    /\ rawError.message # <<>>

\* the value thrown by the operation of the last ExecuteStepNonError
ThrownValue == CHOOSE v \in NonErrors : v.type = opOutcome.value

\* C28: when the operation throws a value that is no Error (a string, null
\* or undefined), executeStep throws an Error built by enhanceError whose
\* message holds the step name and the text of the thrown value.
C28_TotalOverThrownValues ==
    phase = "nonError" =>
        /\ execResult.kind = "threw"
        /\ Len(execResult.error.message) >= Len(HeaderLine(stepName))
        /\ SubSeq(execResult.error.message, 1, Len(HeaderLine(stepName)))
              = HeaderLine(stepName)
        /\ Contains(execResult.error.message, OriginalLine(ThrownValue.text))

\* the note lines of a Timeout diagnostic, in the order the code tests them,
\* with their trigger substrings
NoteTrigger(i) ==
    CASE i = 1 -> "waiting for locator"
      [] i = 2 -> "navigation"
      [] i = 3 -> "waiting for selector"

NoteText(i) ==
    CASE i = 1 -> NoteLocator
      [] i = 2 -> NoteNavigation
      [] i = 3 -> NoteSelector

NoteIds == 1..3

EmittedNotes(text) == { i \in NoteIds : Contains(text, NoteText(i)) }

Triggered(error) == { i \in NoteIds : includes(error.message, NoteTrigger(i)) }

TimeoutClassified(error) ==
    error.name = "TimeoutError" \/ includes(error.message, "timeout")

\* C22 as stated: for a Timeout, each note is emitted exactly when its
\* trigger occurs in the message, so two triggers give two notes.
C22_Original ==
    (Enhanced /\ TimeoutClassified(rawError))
        => /\ EmittedNotes(enhanced.message) = Triggered(rawError)
           /\ EmittedKinds(enhanced.message) = {"Timeout"}

\* C22: for an error classified as Timeout the notes are mutually exclusive:
\* only the note of the first trigger, in the order "waiting for locator",
\* "navigation", "waiting for selector", is emitted, none when no trigger
\* occurs, and the kind stays Timeout.
C22_FirstNoteOnly ==
    (Enhanced /\ TimeoutClassified(rawError))
        => /\ EmittedNotes(enhanced.message)
                = { i \in Triggered(rawError) :
                      \A j \in Triggered(rawError) : i <= j }
           /\ EmittedKinds(enhanced.message) = {"Timeout"}

C22_Witness ==
    /\ Enhanced
    /\ rawError.name = "TimeoutError"
    /\ Triggered(rawError) = {2, 3}
    /\ EmittedNotes(enhanced.message) = {2}

\* the kind whose label line follows the header of a diagnostic for `step`
HeadKind(step, text) ==
    CHOOSE k \in Kinds :
        LET prefix == HeaderLine(step) \o LabelText(k) IN
        Len(text) >= Len(prefix) /\ SubSeq(text, 1, Len(prefix)) = prefix

\* the wait phase of a wrapper failed
WaitFailed == phase = "wrapped" /\ enhanced # NoError

\* C21: when the wait phase of clickWithContext or typeWithContext fails,
\* the error that propagates has the kind that the wait phase gave to the
\* raw error, which is the kind of the raw error's own classification.
C21_ClassifiedOnce ==
    WaitFailed =>
        /\ HeadKind(<<"Wait for element">>, enhanced.message)
              = FirstMatch(AmendedRule, rawError)
        /\ HeadKind(stepName, execResult.error.message)
              = HeadKind(<<"Wait for element">>, enhanced.message)

-----------------------------------------------------------------------------
(* world.ts: names and file names are sequences of characters *)

Letters ==
    { "a","b","c","d","e","f","g","h","i","j","k","l","m",
      "n","o","p","q","r","s","t","u","v","w","x","y","z",
      "A","B","C","D","E","F","G","H","I","J","K","L","M",
      "N","O","P","Q","R","S","T","U","V","W","X","Y","Z" }
Digits == { "0","1","2","3","4","5","6","7","8","9" }

\* the character class [a-zA-Z0-9]
AlphaNum == Letters \cup Digits

\* .replace(/[^a-zA-Z0-9]/g, '-')
ReplaceNonAlphaNum(s) == [i \in 1..Len(s) |-> IF s[i] \in AlphaNum THEN s[i] ELSE "-"]

RECURSIVE CollapseDashes(_)
\* .replace(/-+/g, '-')
CollapseDashes(s) ==
    IF Len(s) < 2 THEN s
    ELSE IF s[1] = "-" /\ s[2] = "-" THEN CollapseDashes(Tail(s))
    ELSE <<s[1]>> \o CollapseDashes(Tail(s))

RECURSIVE TrimLeft(_)
TrimLeft(s) == IF s # <<>> /\ Head(s) = "-" THEN TrimLeft(Tail(s)) ELSE s

RECURSIVE TrimRight(_)
TrimRight(s) ==
    IF s # <<>> /\ s[Len(s)] = "-" THEN TrimRight(SubSeq(s, 1, Len(s) - 1)) ELSE s

\* .replace(/^-+|-+$/g, '')
TrimDashes(s) == TrimRight(TrimLeft(s))

\* Faulty variant: the leading and trailing dashes are kept
CleanName_NoTrim(s) == CollapseDashes(ReplaceNonAlphaNum(s))

\* world.ts 173, 189, 190: the clean name used in file names
CleanName(s) == TrimDashes(CollapseDashes(ReplaceNonAlphaNum(s)))

EndsWith(s, suffix) ==
    /\ Len(s) >= Len(suffix)
    /\ SubSeq(s, Len(s) - Len(suffix) + 1, Len(s)) = suffix

Png == << ".", "p", "n", "g" >>

\* the decimal text of a timestamp
TsText(t) == << ToString(t) >>

\* world.ts 192: `${cleanScenario}-${cleanStep}-${timestamp}.png`
StepFileName(scenarioName, stepText, t) ==
    CleanName(scenarioName) \o <<"-">> \o CleanName(stepText) \o <<"-">> \o TsText(t) \o Png

\* world.ts 174: `${cleanName}-${Date.now()}.png`
ScenarioFileName(name, t) == CleanName(name) \o <<"-">> \o TsText(t) \o Png

\* world.ts 201: `${scenarioName}-${stepName}-${timestamp}`
ScreenshotKey(scenarioName, stepText, t) ==
    scenarioName \o <<"-">> \o stepText \o <<"-">> \o TsText(t)

\* world.ts 67: the files clearScreenshots deletes
IsImage(f) ==
    \/ EndsWith(f, Png)
    \/ EndsWith(f, << ".", "j", "p", "g" >>)
    \/ EndsWith(f, << ".", "j", "p", "e", "g" >>)

\* Map.prototype.set on global.stepScreenshots
MapSet(m, k, v) == { e \in m : e.key # k } \cup { [key |-> k, value |-> v] }

\* scenario.pickle.name of the scenarios of the run
ScenarioNames == { << "A", " ", "1" >>, << "B", "!" >> }

\* pickleStep.text of the i-th step of a scenario
StepText(i) == IF i % 2 = 1 THEN << "g", "o" >> ELSE << "g", "o", " ", "2" >>

\* world.ts 254, 255: the names used when a text is empty
UnknownStep == << "u","n","k","n","o","w","n","-","s","t","e","p" >>
UnknownScenario == << "u","n","k","n","o","w","n","-","s","c","e","n","a","r","i","o" >>

\* JavaScript `s || d` on strings
OrElse(s, d) == IF s = <<>> THEN d ELSE s

\* result.status of a step that was executed
StepStatuses == { "PASSED", "FAILED", "SKIPPED" }

\* files left in reports/screenshots by earlier runs
OldFiles ==
    { << "o", "l", "d", "-", "0" >> \o Png,
      << "n", "o", "t", "e", "s", ".", "t", "x", "t" >> }

-----------------------------------------------------------------------------
(* world.ts: CustomWorld methods *)

\* Faulty variant: only the .png files are deleted
clearScreenshots_PngOnly(exists, fs) ==
    [ files   |-> IF exists THEN { f \in fs : ~EndsWith(f, Png) } ELSE fs,
      logged  |-> exists,
      count   |-> IF exists THEN Cardinality(fs) ELSE 0,
      deleted |-> IF exists THEN Cardinality({ f \in fs : EndsWith(f, Png) }) ELSE 0,
      index   |-> {},
      threw   |-> FALSE ]

\* world.ts 62-75.  files: the directory afterwards; logged, count: whether
\* line 71 printed "Cleared N screenshot(s)" and its N (files.length);
\* deleted: the number of unlinkSync calls; index: global.stepScreenshots
\* afterwards.  Without the directory nothing is read and nothing is printed.
clearScreenshots(exists, fs) ==
    [ files   |-> IF exists THEN { f \in fs : ~IsImage(f) } ELSE fs,
      logged  |-> exists,
      count   |-> IF exists THEN Cardinality(fs) ELSE 0,
      deleted |-> IF exists THEN Cardinality({ f \in fs : IsImage(f) }) ELSE 0,
      index   |-> {},
      threw   |-> FALSE ]

\* the record of one more call of clearScreenshots
ClearedBy(c, prev) ==
    [ calls |-> prev.calls + 1, logged |-> c.logged, count |-> c.count,
      deleted |-> c.deleted, threw |-> c.threw ]

NoShot == [result |-> "none", file |-> <<>>, key |-> <<>>, stepIndex |-> 0]

\* world.ts 187-213.  page.screenshot rejects when the page is closed or
\* crashed.  result: "path" (a file was written and registered), "null", or
\* "threw".
takeScreenshotForStep(w, e, p, stepText, scenarioName, t) ==
    IF w.page = "set"
    THEN IF e.pageUsable
         THEN [ result    |-> "path",
                file      |-> StepFileName(scenarioName, stepText, t),
                key       |-> ScreenshotKey(scenarioName, stepText, t),
                stepIndex |-> p.stepIndex ]
         ELSE [NoShot EXCEPT !.result = "threw"]
    ELSE [NoShot EXCEPT !.result = "null"]

\* world.ts 170-185
takeScreenshot(w, e, name, t) ==
    IF w.page = "set"
    THEN IF e.pageUsable
         THEN [NoShot EXCEPT !.result = "path", !.file = ScenarioFileName(name, t)]
         ELSE [NoShot EXCEPT !.result = "threw"]
    ELSE [NoShot EXCEPT !.result = "null"]

\* where openBrowser can fail
OpenOutcomes == { "ok", "launch", "newContext", "tracingStart", "newPage" }

\* world.ts 77-137: the fields assigned and the Playwright objects created
\* before the step named by `o` fails ("ok": none fails)
openBrowser(o) ==
    [ world |-> [ browser |-> IF o = "launch" THEN "unset" ELSE "set",
                  context |-> IF o \in {"launch", "newContext"} THEN "unset" ELSE "set",
                  page    |-> IF o = "ok" THEN "set" ELSE "unset" ],
      browserOpen |-> o # "launch",
      tracing     |-> IF o \in {"ok", "newPage"} THEN "on" ELSE "off",
      pageUsable  |-> o = "ok",
      threw       |-> o # "ok" ]

\* Faulty variant: the catch block of closeBrowser only logs the error
closeBrowser_NoForce(w, e, stopOk, closeOk, forceOk) ==
    LET stopAttempted == w.context = "set"
        stopFailed    == stopAttempted /\ ~(stopOk /\ e.tracing = "on")
        firstClose    == ~stopFailed /\ w.browser = "set"
    IN  [ stopAttempted |-> stopAttempted,
          traceSaved    |-> stopAttempted /\ ~stopFailed,
          closeAttempts |-> IF firstClose THEN 1 ELSE 0,
          rejections    |-> IF firstClose /\ ~closeOk THEN 1 ELSE 0,
          closed        |-> firstClose /\ closeOk,
          logged        |-> stopFailed \/ (firstClose /\ ~closeOk),
          threw         |-> FALSE ]

\* Faulty variant: no catch around the release steps, the first rejection propagates
closeBrowser_Propagate(w, e, stopOk, closeOk, forceOk) ==
    LET stopAttempted == w.context = "set"
        stopFailed    == stopAttempted /\ ~(stopOk /\ e.tracing = "on")
        firstClose    == ~stopFailed /\ w.browser = "set"
    IN  [ stopAttempted |-> stopAttempted,
          traceSaved    |-> stopAttempted /\ ~stopFailed,
          closeAttempts |-> IF firstClose THEN 1 ELSE 0,
          rejections    |-> IF firstClose /\ ~closeOk THEN 1 ELSE 0,
          closed        |-> firstClose /\ closeOk,
          logged        |-> FALSE,
          threw         |-> stopFailed \/ (firstClose /\ ~closeOk) ]

\* world.ts 139-164.  tracing.stop rejects when stopOk is FALSE or tracing was
\* never started; the first browser.close rejects when closeOk is FALSE, the
\* forced one when forceOk is FALSE.
closeBrowser(w, e, stopOk, closeOk, forceOk) ==
    LET stopAttempted == w.context = "set"
        stopFailed    == stopAttempted /\ ~(stopOk /\ e.tracing = "on")
        firstClose    == ~stopFailed /\ w.browser = "set"
        caught        == stopFailed \/ (firstClose /\ ~closeOk)
        forceClose    == caught /\ w.browser = "set"
    IN  [ stopAttempted |-> stopAttempted,
          traceSaved    |-> stopAttempted /\ ~stopFailed,
          closeAttempts |-> (IF firstClose THEN 1 ELSE 0) + (IF forceClose THEN 1 ELSE 0),
          rejections    |-> (IF firstClose /\ ~closeOk THEN 1 ELSE 0)
                            + (IF forceClose /\ ~forceOk THEN 1 ELSE 0),
          closed        |-> (firstClose /\ closeOk) \/ (forceClose /\ forceOk),
          logged        |-> caught,
          threw         |-> FALSE ]

\* Faulty variant: the catch block of the After hook logs and rethrows without closing
AfterCatch_Rethrow(w, closeOk) ==
    [ stopAttempted |-> FALSE, traceSaved |-> FALSE, closeAttempts |-> 0,
      rejections |-> 0, closed |-> FALSE, logged |-> TRUE, threw |-> TRUE ]

\* Faulty variant: the catch block of the After hook only logs the error
AfterCatch_NoClose(w, closeOk) ==
    [ stopAttempted |-> FALSE, traceSaved |-> FALSE, closeAttempts |-> 0,
      rejections |-> 0, closed |-> FALSE, logged |-> TRUE, threw |-> FALSE ]

\* world.ts 286-300: the catch block of the After hook
AfterCatch(w, closeOk) ==
    [ stopAttempted |-> FALSE,
      traceSaved    |-> FALSE,
      closeAttempts |-> IF w.browser = "set" THEN 1 ELSE 0,
      rejections    |-> IF w.browser = "set" /\ ~closeOk THEN 1 ELSE 0,
      closed        |-> w.browser = "set" /\ closeOk,
      logged        |-> TRUE,
      threw         |-> FALSE ]

\* Faulty variant: the index is not moved after a failed step
AfterStepParams_SkipFailed(p, status) ==
    IF status = "FAILED" THEN p ELSE [p EXCEPT !.stepIndex = @ + 1]

\* world.ts 248: this.parameters.stepIndex = (this.parameters.stepIndex || 0) + 1,
\* before the step's result.status is looked at
AfterStepParams(p, status) == [p EXCEPT !.stepIndex = @ + 1]

\* Faulty variant: the debug flag is ignored
ShouldCapture_FailedOnly(status, debug) == status = "FAILED"

\* Faulty variant: every step that did not pass is captured
ShouldCapture_NotPassed(status, debug) == status # "PASSED" \/ debug

\* world.ts 250-253: shouldTakeScreenshotOnFailure || shouldTakeScreenshotOnAll
ShouldCapture(status, debug) == status = "FAILED" \/ debug

\* world.ts 233-234
BeforeParams(p, name) == [p EXCEPT !.scenarioName = name, !.stepIndex = 0]

-----------------------------------------------------------------------------
(* world.ts: the hooks, run by one lane of the Cucumber runner *)

HelpersAtRest ==
    /\ rawError = [name |-> "", message |-> <<>>, stack |-> <<>>]
    /\ stepName = <<>>
    /\ context = <<>>
    /\ phase = "unused"
    /\ enhanced = NoError
    /\ opOutcome = [ok |-> TRUE, value |-> NoValue]
    /\ execResult = [kind |-> "none", value |-> NoValue, error |-> NoError, calls |-> 0]

HookInit ==
    /\ OthersAtRest
    /\ HelpersAtRest
    /\ ReportAtRest
    /\ hpc = "start"
    /\ debugAll \in BOOLEAN
    /\ parameters = [scenarioName |-> <<>>, stepIndex |-> 0]
    /\ world = FreshWorld
    /\ env = NoEnv
    /\ pickle = [name |-> <<>>, status |-> "UNKNOWN", afterSteps |-> 0, scenarios |-> 0,
                 captures |-> 0]
    /\ now = 0
    /\ files = OldFiles
    /\ stepScreenshots = {}
    /\ lastHook = NoHook
    /\ dirExists = TRUE
    /\ cleared = NoClear

\* world.ts 219-227 with clearScreenshots (62-75)
BeforeAllHook ==
    /\ hpc = "start"
    /\ LET c == clearScreenshots(dirExists, files) IN
        /\ files' = c.files
        /\ stepScreenshots' = c.index
        /\ cleared' = ClearedBy(c, cleared)
        /\ lastHook' = [NoHook EXCEPT !.hook = "BeforeAll", !.threw = c.threw]
    /\ hpc' = "ready"
    /\ UNCHANGED <<debugAll, parameters, world, env, pickle, now, dirExists>>
    /\ UNCHANGED helperVars
    /\ UNCHANGED reportVars
    /\ UNCHANGED otherVars

\* world.ts 53-57 (a new CustomWorld on the lane's worldParameters) and the
\* Before hook, 229-244.  A failing hook fails the scenario: its steps are
\* skipped and the After hook runs next.
BeforeHook ==
    /\ hpc = "ready"
    /\ pickle.scenarios < MaxScenarios
    /\ \E name \in ScenarioNames, o \in OpenOutcomes :
        LET ob == openBrowser(o) IN
        /\ parameters' = BeforeParams([parameters EXCEPT !.stepIndex = 0], name)
        /\ world' = ob.world
        /\ env' = [ browserOpen |-> ob.browserOpen, tracing |-> ob.tracing,
                    pageUsable |-> ob.pageUsable ]
        /\ pickle' = [ name |-> name,
                       status |-> IF ob.threw THEN "FAILED" ELSE "PASSED",
                       afterSteps |-> 0,
                       scenarios |-> pickle.scenarios + 1,
                       captures |-> 0 ]
        /\ lastHook' = [NoHook EXCEPT !.hook = "Before", !.threw = ob.threw,
                                      !.logged = ob.threw]
        /\ hpc' = IF ob.threw THEN "finishing" ELSE "running"
    /\ UNCHANGED <<debugAll, now, files, stepScreenshots, dirExists, cleared>>
    /\ UNCHANGED helperVars
    /\ UNCHANGED reportVars
    /\ UNCHANGED otherVars

\* the page or the browser of the running scenario closes or crashes
PageCloses ==
    /\ hpc \in {"running", "finishing"}
    /\ env.pageUsable
    /\ env' = [env EXCEPT !.pageUsable = FALSE]
    /\ UNCHANGED <<hpc, debugAll, parameters, world, pickle, now, files,
                   stepScreenshots, lastHook, dirExists, cleared>>
    /\ UNCHANGED helperVars
    /\ UNCHANGED reportVars
    /\ UNCHANGED otherVars

\* the values the next Date.now() can return: the clock never runs backwards
Clock == now..MaxClock

\* world.ts 246-266: the AfterStep hook, after the next step of the scenario
\* ended with `status`.  A hook that throws fails the step.
AfterStepHook ==
    /\ hpc = "running"
    /\ pickle.afterSteps < MaxSteps
    /\ \E status \in StepStatuses, t \in Clock :
        LET text  == StepText(pickle.afterSteps + 1)
            p1    == AfterStepParams(parameters, status)
            shot  == IF ShouldCapture(status, debugAll)
                     THEN takeScreenshotForStep(world, env, p1,
                              OrElse(text, UnknownStep),
                              OrElse(p1.scenarioName, UnknownScenario), t)
                     ELSE NoShot
            threw == shot.result = "threw"
            worst == IF status = "FAILED" \/ threw THEN "FAILED"
                     ELSE IF status = "SKIPPED" THEN "SKIPPED" ELSE pickle.status
        IN
        /\ parameters' = p1
        /\ files' = IF shot.result = "path" THEN files \cup {shot.file} ELSE files
        /\ stepScreenshots' =
              IF shot.result = "path"
              THEN MapSet(stepScreenshots, shot.key,
                          [ stepName |-> OrElse(text, UnknownStep),
                            scenarioName |-> OrElse(p1.scenarioName, UnknownScenario),
                            path |-> shot.file,
                            stepIndex |-> shot.stepIndex ])
              ELSE stepScreenshots
        /\ lastHook' = [NoHook EXCEPT !.hook = "AfterStep", !.threw = threw,
                                      !.shot = shot.result, !.status = status,
                                      !.shotIndex = shot.stepIndex]
        /\ pickle' = [pickle EXCEPT !.afterSteps = @ + 1, !.status = worst,
                                    !.captures = IF shot.result = "path"
                                                 THEN @ + 1 ELSE @]
        /\ hpc' = IF worst = "PASSED" THEN "running" ELSE "finishing"
        /\ now' = IF shot.result = "path" THEN t ELSE now
    /\ UNCHANGED <<debugAll, world, env, dirExists, cleared>>
    /\ UNCHANGED helperVars
    /\ UNCHANGED reportVars
    /\ UNCHANGED otherVars

\* world.ts 268-301: the After hook, with closeBrowser (139-164)
AfterHook ==
    /\ hpc \in {"running", "finishing"}
    /\ \E stopOk \in BOOLEAN, closeOk \in BOOLEAN, forceOk \in BOOLEAN, t \in Clock :
        LET shot == IF pickle.status = "FAILED"
                    THEN takeScreenshot(world, env, pickle.name, t)
                    ELSE NoShot
            rel  == IF shot.result = "threw"
                    THEN AfterCatch(world, closeOk)
                    ELSE closeBrowser(world, env, stopOk, closeOk, forceOk)
        IN
        /\ parameters' = [parameters EXCEPT !.scenarioName = pickle.name]
        /\ files' = IF shot.result = "path" THEN files \cup {shot.file} ELSE files
        /\ env' = [ browserOpen |-> env.browserOpen /\ ~rel.closed,
                    tracing     |-> IF rel.traceSaved THEN "stopped" ELSE env.tracing,
                    pageUsable  |-> env.pageUsable /\ ~rel.closed ]
        /\ now' = IF shot.result = "path" THEN t ELSE now
        /\ lastHook' = [ hook |-> "After", threw |-> rel.threw, shot |-> shot.result,
                         logged |-> rel.logged,
                         hadContext |-> world.context = "set",
                         hadBrowser |-> world.browser = "set",
                         stopAttempted |-> rel.stopAttempted,
                         closeAttempts |-> rel.closeAttempts,
                         closeRejections |-> rel.rejections,
                         status |-> "none", shotIndex |-> 0 ]
        /\ hpc' = "ready"
    /\ UNCHANGED <<debugAll, world, pickle, stepScreenshots, dirExists, cleared>>
    /\ UNCHANGED helperVars
    /\ UNCHANGED reportVars
    /\ UNCHANGED otherVars

HookNext == BeforeAllHook \/ BeforeHook \/ PageCloses \/ AfterStepHook \/ AfterHook

Spec == HookInit /\ [][HookNext]_vars

-----------------------------------------------------------------------------
(* Claims about the hooks (checked under Spec)                              *)

InScenario == hpc \in {"running", "finishing"}

\* C7: at every point of a scenario the step index equals the number of
\* AfterStep invocations since that scenario's Before hook (0 right after it,
\* one more after every AfterStep whatever the step's outcome), and the
\* recorded scenario name is the name of the scenario that is running.
C7_IndexCountsAfterSteps ==
    InScenario =>
        /\ parameters.stepIndex = pickle.afterSteps
        /\ parameters.scenarioName = pickle.name

C7_Witness ==
    /\ hpc = "finishing"
    /\ pickle.scenarios = 2
    /\ pickle.status = "FAILED"
    /\ lastHook.hook = "AfterStep"
    /\ pickle.afterSteps = MaxSteps
    /\ parameters.stepIndex = MaxSteps
    /\ parameters.scenarioName = pickle.name

\* C8: the capture in the AfterStep hook never masks the step's failure: with
\* the page closed or crashed takeScreenshotForStep returns null instead of
\* throwing, and the AfterStep hook raises no error of its own.
C8_CaptureNeverThrows ==
    lastHook.hook = "AfterStep" =>
        /\ ~lastHook.threw
        /\ (world.page = "set" /\ ~env.pageUsable /\ lastHook.shot # "none")
              => lastHook.shot = "null"

\* C9: the After hook never throws; when the failure screenshot of a failed
\* scenario throws, the error is logged and closing the browser is still
\* attempted whenever a browser was acquired.
C9_AfterSwallowsCaptureError ==
    lastHook.hook = "After" =>
        /\ ~lastHook.threw
        /\ lastHook.shot = "threw" =>
              /\ lastHook.logged
              /\ lastHook.hadBrowser => lastHook.closeAttempts >= 1

C9_Witness ==
    /\ lastHook.hook = "After"
    /\ lastHook.shot = "threw"
    /\ lastHook.hadBrowser
    /\ lastHook.logged
    /\ lastHook.closeAttempts = 1
    /\ ~lastHook.threw

\* C10: on every exit path of the After hook every acquired resource is
\* released: with a browser context, stopping and saving the trace is
\* attempted, and with a browser, closing it is attempted.
C10_AllReleasesAttempted ==
    lastHook.hook = "After" =>
        /\ lastHook.hadContext => lastHook.stopAttempted
        /\ lastHook.hadBrowser => lastHook.closeAttempts >= 1

\* the scenario whose hooks ran last acquired a browser in a Before hook that
\* failed after the launch
FailedBeforeWithBrowser == world.browser = "set" /\ world.page = "unset"

\* C11 as stated: a Before hook whose openBrowser fails after the launch
\* rethrows, so the scenario goes straight to its After hook, and when that
\* After hook has returned the launched browser is closed.
C11_Original ==
    /\ (lastHook.hook = "Before" /\ FailedBeforeWithBrowser)
          => (lastHook.threw /\ hpc = "finishing")
    /\ (lastHook.hook = "After" /\ FailedBeforeWithBrowser) => ~env.browserOpen

\* C11 (amended): a Before hook whose openBrowser fails after the launch
\* rethrows, so the scenario goes straight to its After hook with no step
\* run; that After hook calls browser.close() at least once, and the browser
\* is still open on its return only if every browser.close() it called
\* rejected.
C11_FailedBeforeBrowserReleased ==
    /\ (lastHook.hook = "Before" /\ FailedBeforeWithBrowser)
          => (lastHook.threw /\ hpc = "finishing")
    /\ (lastHook.hook = "After" /\ FailedBeforeWithBrowser) =>
          /\ pickle.afterSteps = 0
          /\ ~lastHook.threw
          /\ lastHook.closeAttempts >= 1
          /\ env.browserOpen => lastHook.closeRejections = lastHook.closeAttempts

C11_Witness ==
    /\ hpc = "ready"
    /\ lastHook.hook = "After"
    /\ world.context = "set"
    /\ world.page = "unset"
    /\ env.tracing = "off"
    /\ lastHook.stopAttempted
    /\ lastHook.closeAttempts = 1
    /\ lastHook.closeRejections = 0
    /\ ~env.browserOpen

\* world.ts 192-206: what a capture made at time t for step i of the running
\* scenario, with step index n, puts into global.stepScreenshots
StepEntry(i, n, t) ==
    [ key   |-> ScreenshotKey(pickle.name, StepText(i), t),
      value |-> [ stepName     |-> StepText(i),
                  scenarioName |-> pickle.name,
                  path         |-> StepFileName(pickle.name, StepText(i), t),
                  stepIndex    |-> n ] ]

\* C12: with SCREENSHOT_ALL_STEPS=true every AfterStep invocation makes one
\* capture whatever the step's status; a capture that succeeds records the
\* number of the step as its index, so a scenario whose n steps so far all
\* passed has exactly n captures, with the indices 1, 2, ..., n.
C12_DebugCapturesEveryStep ==
    debugAll =>
        /\ lastHook.hook = "AfterStep" =>
              /\ lastHook.shot \in {"path", "threw"}
              /\ env.pageUsable => lastHook.shot = "path"
              /\ lastHook.shot = "path" =>
                    /\ lastHook.shotIndex = pickle.afterSteps
                    /\ StepEntry(pickle.afterSteps, pickle.afterSteps, now)
                          \in stepScreenshots
                    /\ StepFileName(pickle.name, StepText(pickle.afterSteps), now)
                          \in files
        /\ (InScenario /\ pickle.status = "PASSED")
              => pickle.captures = pickle.afterSteps

C12_Witness ==
    /\ debugAll
    /\ lastHook.hook = "AfterStep"
    /\ lastHook.status = "PASSED"
    /\ pickle.status = "PASSED"
    /\ pickle.afterSteps = MaxSteps
    /\ pickle.captures = MaxSteps
    /\ lastHook.shotIndex = MaxSteps

\* C13: without the flag, an AfterStep invocation for a step that passed or
\* was skipped makes no capture and leaves the screenshot files and the
\* index as they were; for a FAILED step it makes one capture, and a capture
\* that succeeds writes a file and an index entry named after the step's
\* text, with the step index already incremented.
C13_CaptureIffFailed ==
    [][ ( /\ ~debugAll
          /\ hpc = "running"
          /\ lastHook'.hook = "AfterStep"
          /\ pickle'.afterSteps = pickle.afterSteps + 1 ) =>
        IF lastHook'.status = "FAILED"
        THEN /\ lastHook'.shot \in {"path", "threw"}
             /\ env.pageUsable => lastHook'.shot = "path"
             /\ lastHook'.shot = "path" =>
                   /\ pickle'.captures = pickle.captures + 1
                   /\ StepEntry(pickle'.afterSteps, parameters.stepIndex + 1, now')
                         \in stepScreenshots'
                   /\ StepFileName(pickle.name, StepText(pickle'.afterSteps), now')
                         \in files'
        ELSE /\ lastHook'.shot = "none"
             /\ files' = files
             /\ stepScreenshots' = stepScreenshots
             /\ pickle'.captures = pickle.captures
      ]_vars

C13_Witness ==
    /\ ~debugAll
    /\ lastHook.hook = "AfterStep"
    /\ lastHook.status = "FAILED"
    /\ lastHook.shot = "path"
    /\ lastHook.shotIndex = 2
    /\ pickle.captures = 1
    /\ Cardinality(stepScreenshots) = 1

\* the lane runs a Before hook / an After hook
RunsBefore == hpc = "ready" /\ hpc' \in {"running", "finishing"}
RunsAfter == hpc \in {"running", "finishing"} /\ hpc' = "ready"

\* a step in which the AfterStep hook ran and its takeScreenshotForStep
\* returned a path
StepCaptured ==
    /\ pickle'.afterSteps = pickle.afterSteps + 1
    /\ lastHook'.hook = "AfterStep"
    /\ lastHook'.shot = "path"

\* C29: every successful takeScreenshotForStep adds one new entry to the
\* index and one new file to the directory, so that captures never share a
\* key or a path, and the new entry's path names the file just written.
C29_OneEntryAndFilePerCapture ==
    [][ StepCaptured =>
          /\ Cardinality(stepScreenshots') = Cardinality(stepScreenshots) + 1
          /\ Cardinality(files') = Cardinality(files) + 1
          /\ \E e \in stepScreenshots' \ stepScreenshots :
                e.value.path \in files' \ files ]_vars

\* the After hook that just returned reached closeBrowser (line 284)
ClosedByCloseBrowser == lastHook.hook = "After" /\ lastHook.shot # "threw"

\* C23: in closeBrowser a failed trace stop is followed by a close of the
\* browser; closeBrowser never throws; the trace stop is attempted only with
\* a context and a close only with a browser.
C23_IndependentRelease ==
    ClosedByCloseBrowser =>
        /\ ~lastHook.threw
        /\ (lastHook.stopAttempted /\ env.tracing # "stopped" /\ lastHook.hadBrowser)
              => lastHook.closeAttempts >= 1
        /\ lastHook.stopAttempted => lastHook.hadContext
        /\ lastHook.closeAttempts >= 1 => lastHook.hadBrowser

C23_Witness ==
    /\ ClosedByCloseBrowser
    /\ lastHook.stopAttempted
    /\ env.tracing # "stopped"
    /\ lastHook.closeAttempts = 1
    /\ lastHook.logged
    /\ ~env.browserOpen

\* closeBrowser with nothing acquired releases nothing
C23_WitnessNothingAcquired ==
    /\ ClosedByCloseBrowser
    /\ ~lastHook.hadContext /\ ~lastHook.hadBrowser
    /\ ~lastHook.stopAttempted /\ lastHook.closeAttempts = 0

\* C20 as stated: when the After hook of a scenario has returned, the
\* browser of that scenario is closed, so the Before hook of the next
\* scenario never runs while a browser of the lane is open.
C20_Original ==
    (lastHook.hook = "After" /\ hpc = "ready") => ~env.browserOpen

\* C20 (amended): the After hook of a scenario returns without throwing,
\* having called browser.close() at least once when the scenario had a
\* browser; the browser is open afterwards only if every one of these
\* calls rejected, and only then does the Before hook of the next scenario
\* run while a browser of the lane is still open.
C20_TeardownBeforeNextScenario ==
    [][ /\ RunsAfter =>
              /\ lastHook'.hook = "After"
              /\ ~lastHook'.threw
              /\ env.browserOpen => lastHook'.closeAttempts >= 1
              /\ env'.browserOpen =>
                    lastHook'.closeRejections = lastHook'.closeAttempts
        /\ (RunsBefore /\ env.browserOpen) =>
              /\ lastHook.hook = "After"
              /\ lastHook.closeAttempts >= 1
              /\ lastHook.closeRejections = lastHook.closeAttempts
      ]_vars

C20_Witness ==
    /\ hpc = "ready"
    /\ lastHook.hook = "After"
    /\ pickle.scenarios = 1
    /\ pickle.status = "PASSED"
    /\ lastHook.hadBrowser
    /\ lastHook.closeAttempts = 2
    /\ lastHook.closeRejections = 1
    /\ ~env.browserOpen

-----------------------------------------------------------------------------
(* world.ts: clearScreenshots called on its own (checked under SpecClear)   *)

\* names a file of reports/screenshots can have
FilePool ==
    { << "a" >> \o Png,
      << "b", ".", "j", "p", "g" >>,
      << "c", ".", "j", "p", "e", "g" >>,
      << "n", "o", "t", "e", "s", ".", "t", "x", "t" >>,
      << ".", "g", "i", "t", "k", "e", "e", "p" >>,
      << "p", "n", "g" >> }

\* an index left by the captures of earlier scenarios
OldIndex ==
    { [ key   |-> << "A", "-", "g", "o", "-", "0" >>,
        value |-> [ stepName |-> << "g", "o" >>, scenarioName |-> << "A" >>,
                    path |-> << "A", "-", "g", "o", "-", "0" >> \o Png,
                    stepIndex |-> 1 ] ] }

ClearInit ==
    /\ OthersAtRest
    /\ HelpersAtRest
    /\ ReportAtRest
    /\ hpc = "start"
    /\ debugAll = FALSE
    /\ parameters = [scenarioName |-> <<>>, stepIndex |-> 0]
    /\ world = FreshWorld
    /\ env = NoEnv
    /\ pickle = [name |-> <<>>, status |-> "UNKNOWN", afterSteps |-> 0, scenarios |-> 0,
                 captures |-> 0]
    /\ now = 0
    /\ lastHook = NoHook
    /\ dirExists \in BOOLEAN
    /\ files \in (IF dirExists THEN SUBSET FilePool ELSE {{}})
    /\ stepScreenshots \in {{}, OldIndex}
    /\ cleared = NoClear

\* one call of CustomWorld.clearScreenshots()
ClearScreenshots ==
    /\ cleared.calls < MaxClears
    /\ LET c == clearScreenshots(dirExists, files) IN
        /\ files' = c.files
        /\ stepScreenshots' = c.index
        /\ cleared' = ClearedBy(c, cleared)
    /\ UNCHANGED <<hpc, debugAll, parameters, world, env, pickle, now, lastHook,
                   dirExists>>
    /\ UNCHANGED helperVars
    /\ UNCHANGED reportVars
    /\ UNCHANGED otherVars

ClearNext == ClearScreenshots

SpecClear == ClearInit /\ [][ClearNext]_vars

\* C14: a call of clearScreenshots raises no error and leaves no file
\* ending in .png, .jpg or .jpeg in the directory, an empty index, and
\* exactly the files that were there and are no image files; without the
\* directory it raises no error either, creates nothing and empties the
\* index.
C14_ClearRemovesImagesOnly ==
    [][ cleared'.calls = cleared.calls + 1 =>
          /\ ~cleared'.threw
          /\ \A f \in files' : ~IsImage(f)
          /\ stepScreenshots' = {}
          /\ files' = { f \in files : ~IsImage(f) }
          /\ dirExists' = dirExists
          /\ ~dirExists => files' = {}
      ]_vars

C14_Witness ==
    /\ cleared.calls = 1
    /\ cleared.deleted = 3
    /\ dirExists
    /\ Cardinality(files) = 3
    /\ stepScreenshots = {}

\* C15: the count a call of clearScreenshots reports is the number of image
\* files it deleted; of two calls in a row the second reports 0.
C15_ReportsDeletedCount ==
    /\ (cleared.calls >= 1 /\ cleared.logged) => cleared.count = cleared.deleted
    /\ (cleared.calls = 2 /\ cleared.logged) => cleared.count = 0

-----------------------------------------------------------------------------
(* The name normalization on its own (checked under SpecNormalize)          *)

\* characters of the names: letters of both cases, a digit, the dash, and
\* characters outside [a-zA-Z0-9-]
NameChars == { "a", "B", "7", "-", " ", "!" }

ExampleName ==
    << "C","o","n","t","a","c","t"," ","|"," ",
       "B","l","a","n","k","f","a","c","t","o","r","!","!" >>

NameInputs ==
    UNION { [1..n -> NameChars] : n \in 0..MaxNameLen } \cup { ExampleName }

\* the lane before its first hook
LaneAtRest ==
    /\ hpc = "start"
    /\ parameters = [scenarioName |-> <<>>, stepIndex |-> 0]
    /\ world = FreshWorld
    /\ env = NoEnv
    /\ pickle = [name |-> <<>>, status |-> "UNKNOWN", afterSteps |-> 0, scenarios |-> 0,
                 captures |-> 0]
    /\ now = 0
    /\ stepScreenshots = {}
    /\ lastHook = NoHook
    /\ cleared = NoClear

AtRestForReport ==
    /\ HelpersAtRest
    /\ LaneAtRest
    /\ debugAll = FALSE
    /\ files = {}
    /\ dirExists = FALSE

NormalizeInit ==
    /\ OthersAtRest
    /\ AtRestForReport
    /\ rpc = "input"
    /\ rawName \in NameInputs
    /\ cleanName = <<>>
    /\ passes = 0
    /\ scenario = NoScenario
    /\ mtime = <<>>
    /\ produced = {}
    /\ allure = NoAllure

\* world.ts 189, 190 and generateAllureResults.js 24, 25: the chain of
\* replace calls applied to a name
Normalize ==
    /\ rpc = "input"
    /\ cleanName' = CleanName(rawName)
    /\ passes' = passes + 1
    /\ rpc' = "normalized"
    /\ UNCHANGED <<rawName, scenario, mtime, produced, allure>>
    /\ UNCHANGED <<helperVars, hookVars>>
    /\ UNCHANGED otherVars

\* the returned name is normalized again
NormalizeAgain ==
    /\ rpc = "normalized"
    /\ passes < 2
    /\ rawName' = cleanName
    /\ cleanName' = CleanName(cleanName)
    /\ passes' = passes + 1
    /\ UNCHANGED <<rpc, scenario, mtime, produced, allure>>
    /\ UNCHANGED <<helperVars, hookVars>>
    /\ UNCHANGED otherVars

NormalizeNext == Normalize \/ NormalizeAgain

SpecNormalize == NormalizeInit /\ [][NormalizeNext]_vars

\* C16: the normalized name has no character outside [A-Za-z0-9-], no two
\* consecutive dashes and no leading or trailing dash; "Contact |
\* Blankfactor!!" gives "Contact-Blankfactor"; normalizing a normalized name
\* returns it unchanged.
C16_NormalizedShape ==
    rpc = "normalized" =>
        /\ \A i \in 1..Len(cleanName) : cleanName[i] \in AlphaNum \cup {"-"}
        /\ \A i \in 1..(Len(cleanName) - 1) :
              ~(cleanName[i] = "-" /\ cleanName[i + 1] = "-")
        /\ cleanName # <<>> =>
              (cleanName[1] # "-" /\ cleanName[Len(cleanName)] # "-")
        /\ (passes = 1 /\ rawName = ExampleName) =>
              cleanName = << "C","o","n","t","a","c","t","-",
                             "B","l","a","n","k","f","a","c","t","o","r" >>
        /\ passes = 2 => cleanName = rawName

C16_Witness ==
    /\ rpc = "normalized"
    /\ passes = 2
    /\ rawName = << "a", "-", "B" >>
    /\ cleanName = << "a", "-", "B" >>

-----------------------------------------------------------------------------
(* scripts/generateAllureResults.js                                         *)

UpperCase ==
    << "A","B","C","D","E","F","G","H","I","J","K","L","M",
       "N","O","P","Q","R","S","T","U","V","W","X","Y","Z" >>

LowerCase ==
    << "a","b","c","d","e","f","g","h","i","j","k","l","m",
       "n","o","p","q","r","s","t","u","v","w","x","y","z" >>

\* the lower-case letter of every upper-case letter
LowerOf ==
    [ c \in { UpperCase[k] : k \in 1..Len(UpperCase) } |->
        LowerCase[CHOOSE k \in 1..Len(UpperCase) : UpperCase[k] = c] ]

\* String.prototype.toLowerCase
toLowerCase(s) ==
    [ i \in 1..Len(s) |-> IF s[i] \in DOMAIN LowerOf THEN LowerOf[s[i]] ELSE s[i] ]

\* the null that findScreenshotForStep returns: no path
NullPath == <<>>

\* generateAllureResults.js 29-34: the filter applied to a directory entry
MatchesStep(file, cleanScenario, cleanStep) ==
    LET fileName == toLowerCase(file) IN
    /\ Contains(fileName, toLowerCase(cleanScenario))
    /\ Contains(fileName, toLowerCase(cleanStep))
    /\ EndsWith(file, Png)

\* the first entry of a list that no earlier entry precedes after the stable
\* sort by descending mtime (generateAllureResults.js 36-43)
MostRecentFirst(screenshots, mt) ==
    screenshots[CHOOSE i \in 1..Len(screenshots) :
        /\ \A j \in 1..Len(screenshots) : mt[screenshots[j]] <= mt[screenshots[i]]
        /\ \A j \in 1..(i - 1) : mt[screenshots[j]] < mt[screenshots[i]]]

\* Faulty variant: the names are searched as they are, not normalized
findScreenshotForStep_RawNames(exists, listing, mt, scenarioName, stepText) ==
    IF ~exists THEN NullPath
    ELSE LET Match(file)  == MatchesStep(file, scenarioName, stepText)
             screenshots  == SelectSeq(listing, Match)
         IN  IF screenshots = <<>> THEN NullPath
             ELSE MostRecentFirst(screenshots, mt)

\* Faulty variant: the first matching entry is returned, without the sort
findScreenshotForStep_Unsorted(exists, listing, mt, scenarioName, stepText) ==
    IF ~exists THEN NullPath
    ELSE LET cleanScenario == CleanName(scenarioName)
             cleanStep     == CleanName(stepText)
             Match(file)   == MatchesStep(file, cleanScenario, cleanStep)
             screenshots   == SelectSeq(listing, Match)
         IN  IF screenshots = <<>> THEN NullPath
             ELSE screenshots[1]

\* generateAllureResults.js 18-44.  exists: existsSync(screenshotDir);
\* listing: what readdirSync returns; mt: the mtime of every entry.  The
\* stepIndex parameter of the source is not used by its body.
findScreenshotForStep(exists, listing, mt, scenarioName, stepText) ==
    IF ~exists THEN NullPath
    ELSE LET cleanScenario == CleanName(scenarioName)
             cleanStep     == CleanName(stepText)
             Match(file)   == MatchesStep(file, cleanScenario, cleanStep)
             screenshots   == SelectSeq(listing, Match)
         IN  IF screenshots = <<>> THEN NullPath
             ELSE MostRecentFirst(screenshots, mt)

\* Faulty variant: a skipped step decides before a failed one
ScenarioStatus_SkippedFirst(steps) ==
    IF \E i \in 1..Len(steps) : steps[i].status = "skipped" THEN "skipped"
    ELSE IF \E i \in 1..Len(steps) : steps[i].status = "failed" THEN "failed"
    ELSE "passed"

\* generateAllureResults.js 63-64.  A step without result has status "none".
ScenarioStatus(steps) ==
    IF \E i \in 1..Len(steps) : steps[i].status = "failed" THEN "failed"
    ELSE IF \E i \in 1..Len(steps) : steps[i].status = "skipped" THEN "skipped"
    ELSE "passed"

\* generateAllureResults.js 92: .filter(step => !step.hidden && step.result)
Shown(step) == ~step.hidden /\ step.status # "none"

\* generateAllureResults.js 91-131: the steps of the result, each with the
\* attachments of lines 107-128
StepResults(steps, debug, exists, listing, mt, scenarioName) ==
    LET shown == SelectSeq(steps, Shown) IN
    [ index \in 1..Len(shown) |->
        LET step       == shown[index]
            screenshot == IF step.status = "failed" \/ debug
                          THEN findScreenshotForStep(exists, listing, mt,
                                                     scenarioName, step.name)
                          ELSE NullPath
        IN  [ name        |-> step.name,
              status      |-> step.status,
              attachments |-> IF screenshot # NullPath
                              THEN << screenshot >> ELSE << >> ] ]

RECURSIVE SeqOf(_)
\* the elements of a finite set, one after the other
SeqOf(S) ==
    IF S = {} THEN << >>
    ELSE LET x == CHOOSE y \in S : TRUE IN << x >> \o SeqOf(S \ {x})

\* what readdirSync can return for the directory: the order of the entries
\* is the file system's; every entry can be the first one
Listings(fs) ==
    IF fs = {} THEN { << >> }
    ELSE { << f >> \o SeqOf(fs \ {f}) : f \in fs }

\* steps of a scenario in cucumber-report.json: passed, failed, skipped and
\* undefined steps, a step without result, and a failed hook (hidden)
ReportStepPool ==
    { [name |-> << "g", "o" >>,           status |-> "passed",    hidden |-> FALSE],
      [name |-> << "g", "o" >>,           status |-> "failed",    hidden |-> FALSE],
      [name |-> << "g", "o" >>,           status |-> "skipped",   hidden |-> FALSE],
      [name |-> << "G", "o", " ", "2" >>, status |-> "undefined", hidden |-> FALSE],
      [name |-> << "g", "o" >>,           status |-> "none",      hidden |-> FALSE],
      [name |-> << >>,                    status |-> "failed",    hidden |-> TRUE] }

ReportScenarios ==
    { [name |-> << "A", " ", "1" >>, steps |-> st] :
        st \in UNION { [1..k -> ReportStepPool] : k \in 1..MaxReportSteps } }

\* modification times
Mtimes == { 1, 2 }

\* files found in reports/screenshots when the script starts, each with the
\* modification times it can have: two screenshots of scenario "A 1" (one
\* named in lower case), a .jpg of that scenario, a screenshot of scenario "B"
ReportFilePool ==
    { [name |-> << "A", "-", "1", "-", "g", "o", "-", "0" >> \o Png, mtimes |-> Mtimes],
      [name |-> << "a", "-", "1", "-", "g", "o", "-", "2", "-", "0" >> \o Png,
       mtimes |-> Mtimes],
      [name |-> << "A", "-", "1", "-", "g", "o", "-", "0", ".", "j", "p", "g" >>,
       mtimes |-> {2}],
      [name |-> << "B", "-", "g", "o", "-", "0" >> \o Png, mtimes |-> {2}] }

PoolMtimes(f) == (CHOOSE e \in ReportFilePool : e.name = f).mtimes

ReportInit ==
    /\ OthersAtRest
    /\ HelpersAtRest
    /\ LaneAtRest
    /\ debugAll \in BOOLEAN
    /\ dirExists \in BOOLEAN
    /\ files \in (IF dirExists THEN SUBSET { e.name : e \in ReportFilePool } ELSE {{}})
    /\ mtime \in { m \in [files -> Mtimes] : \A f \in files : m[f] \in PoolMtimes(f) }
    /\ scenario \in ReportScenarios
    /\ rpc = "input"
    /\ rawName = <<>>
    /\ cleanName = <<>>
    /\ passes = 0
    /\ produced = {}
    /\ allure = NoAllure

\* world.ts 187-213 called for a step of the scenario at time t, with the
\* names the AfterStep hook passes (254, 255): the file is written, or
\* written again, with modification time t
Capture ==
    /\ rpc = "input"
    /\ produced = {}
    /\ \E i \in 1..Len(scenario.steps), t \in Mtimes :
        LET step == scenario.steps[i]
            file == StepFileName(OrElse(scenario.name, UnknownScenario),
                                 OrElse(step.name, UnknownStep), t)
        IN
        /\ Shown(step)
        /\ files' = files \cup {file}
        /\ mtime' = [f \in files \cup {file} |-> IF f = file THEN t ELSE mtime[f]]
        /\ produced' = {[step |-> i, file |-> file]}
        /\ dirExists' = TRUE
    /\ UNCHANGED <<rpc, rawName, cleanName, passes, scenario, allure>>
    /\ UNCHANGED <<hpc, debugAll, parameters, world, env, pickle, now,
                   stepScreenshots, lastHook, cleared>>
    /\ UNCHANGED helperVars
    /\ UNCHANGED otherVars

\* generateAllureResults.js 59-147 for the scenario
Generate ==
    /\ rpc = "input"
    /\ \E listing \in Listings(files) :
        allure' = [ status |-> ScenarioStatus(scenario.steps),
                    steps  |-> StepResults(scenario.steps, debugAll, dirExists,
                                           listing, mtime, scenario.name) ]
    /\ rpc' = "generated"
    /\ UNCHANGED <<rawName, cleanName, passes, scenario, mtime, produced>>
    /\ UNCHANGED <<helperVars, hookVars>>
    /\ UNCHANGED otherVars

ReportNext == Capture \/ Generate

SpecReport == ReportInit /\ [][ReportNext]_vars

-----------------------------------------------------------------------------
(* Claims about the report generator (checked under SpecReport)             *)

\* the steps of the scenario that appear in the result, in order
ShownSteps == SelectSeq(scenario.steps, Shown)

\* the position in the result of the shown step at position i of the scenario
OutPos(i) == Len(SelectSeq(SubSeq(scenario.steps, 1, i), Shown))

\* C17: the file takeScreenshotForStep wrote for a scenario name and a step
\* name is the one findScreenshotForStep returns for the same names when it
\* is the only entry of the directory, and the generated result of a
\* scenario whose failed step was captured into an otherwise empty directory
\* has that file attached to that step.
C17_RoundTrip ==
    \A p \in produced :
        LET step == scenario.steps[p.step] IN
        /\ p.file \in files
        /\ findScreenshotForStep(TRUE, << p.file >>, mtime, scenario.name, step.name)
              = p.file
        /\ (rpc = "generated" /\ step.status = "failed" /\ files = {p.file})
              => allure.steps[OutPos(p.step)].attachments = << p.file >>

C17_Witness ==
    /\ rpc = "generated"
    /\ \E p \in produced :
        /\ files = {p.file}
        /\ scenario.steps[p.step].status = "failed"
        /\ Len(scenario.steps) = 2
        /\ p.step = 2
        /\ allure.steps[OutPos(2)].attachments = << p.file >>

\* C18: the status of the generated result is failed when a step of the
\* scenario has status failed, otherwise skipped when a step has status
\* skipped, otherwise passed.
C18_ScenarioStatus ==
    rpc = "generated" =>
        LET statuses == { scenario.steps[i].status : i \in 1..Len(scenario.steps) } IN
        /\ "failed" \in statuses => allure.status = "failed"
        /\ ("failed" \notin statuses /\ "skipped" \in statuses)
              => allure.status = "skipped"
        /\ ("failed" \notin statuses /\ "skipped" \notin statuses)
              => allure.status = "passed"

C18_Witness ==
    /\ rpc = "generated"
    /\ Len(scenario.steps) = 2
    /\ scenario.steps[1].status = "skipped"
    /\ scenario.steps[2].status = "failed"
    /\ ~scenario.steps[2].hidden
    /\ allure.status = "failed"

\* the .png files of the directory whose name contains, in any case, the
\* normalized name of the scenario and the normalized name of the step
MatchingFiles(step) ==
    { f \in files :
        /\ EndsWith(f, Png)
        /\ Contains(toLowerCase(f), toLowerCase(CleanName(scenario.name)))
        /\ Contains(toLowerCase(f), toLowerCase(CleanName(step.name))) }

\* C19: every shown step is in the result; a failed step with a matching
\* file has exactly one attachment, a matching file that no matching file
\* is newer than; a step without matching file has no attachment (so none
\* without the directory), and without the debug flag no step that did not
\* fail has one.
C19_AttachMostRecentMatch ==
    rpc = "generated" =>
        /\ Len(allure.steps) = Len(ShownSteps)
        /\ \A k \in 1..Len(allure.steps) :
            LET step == ShownSteps[k]
                att  == allure.steps[k].attachments
            IN
            /\ (step.status = "failed" /\ MatchingFiles(step) # {}) =>
                  /\ Len(att) = 1
                  /\ att[1] \in MatchingFiles(step)
                  /\ \A g \in MatchingFiles(step) : mtime[g] <= mtime[att[1]]
            /\ MatchingFiles(step) = {} => att = << >>
            /\ (~debugAll /\ step.status # "failed") => att = << >>

C19_Witness ==
    /\ rpc = "generated"
    /\ ~debugAll
    /\ produced = {}
    /\ Len(allure.steps) = 2
    /\ allure.steps[1].attachments = << >>
    /\ ShownSteps[2].status = "failed"
    /\ Cardinality(MatchingFiles(ShownSteps[2])) = 2
    /\ \E f \in files :
        /\ allure.steps[2].attachments = << f >>
        /\ \E g \in MatchingFiles(ShownSteps[2]) : mtime[g] < mtime[f]

\* C26: the file attached to a failed step of the scenario is the file that
\* the AfterStep hook captured for that step of that execution, whatever
\* other screenshots the directory holds.
C26_AttachesOwnCapture ==
    rpc = "generated" =>
        \A p \in produced :
            scenario.steps[p.step].status = "failed"
                => allure.steps[OutPos(p.step)].attachments = << p.file >>

-----------------------------------------------------------------------------
(* world.ts run with PARALLEL > 1 (cucumber.js line 25): every lane is a   *)
(* worker process of the runner.  A worker loads world.ts itself, so it    *)
(* has its own global.stepScreenshots and its own worldParameters object,  *)
(* and it runs the BeforeAll hook itself before its first scenario; all    *)
(* workers share the directory reports/screenshots and the clock.  The     *)
(* browser of a lane is reduced to its page; Spec covers the release.      *)

Lanes == {1, 2}

\* scenarios of the run; the runner hands them to the lanes one by one
MaxLaneScenarios == 2

\* steps of a scenario of a lane, and the last value of the shared clock
MaxLaneSteps == 1
MaxLaneClock == 0

\* scenario.pickle.name of the k-th scenario the runner hands out
LaneScenario(k) == IF k % 2 = 1 THEN << "A", " ", "1" >> ELSE << "B", "!" >>

\* scenarios handed out so far
RECURSIVE Started(_, _)
Started(ls, S) ==
    IF S = {} THEN 0
    ELSE LET l == CHOOSE x \in S : TRUE IN ls[l].scenarios + Started(ls, S \ {l})

NoLast == [captured |-> FALSE, stepIndex |-> 0, scenarioName |-> <<>>]

\* a worker process that has loaded world.ts (lines 33-35, 53-57)
LaneStart ==
    [ pc |-> "start",
      parameters |-> [scenarioName |-> <<>>, stepIndex |-> 0],
      name |-> <<>>, afterSteps |-> 0, status |-> "UNKNOWN", scenarios |-> 0,
      page |-> "unset", pageUsable |-> FALSE,
      index |-> {}, last |-> NoLast ]

\* Faulty variant: one parameters object shared by all lanes
SetParameters_Shared(ls, l, p) == [k \in Lanes |-> [ls[k] EXCEPT !.parameters = p]]

\* an assignment to this.parameters in lane l: the object belongs to the
\* lane's process
SetParameters(ls, l, p) == [ls EXCEPT ![l].parameters = p]

LaneInit ==
    /\ HelpersAtRest
    /\ HooksAtRest
    /\ ReportAtRest
    /\ ClickAtRest
    /\ StableAtRest
    /\ lane = [l \in Lanes |-> LaneStart]
    /\ laneFiles = OldFiles
    /\ laneCaptured = {}
    /\ laneNow = 0
    /\ laneDebug \in BOOLEAN

\* world.ts 219-227 with clearScreenshots (62-75), run by worker l
LaneBeforeAll(l) ==
    /\ lane[l].pc = "start"
    /\ LET c == clearScreenshots(TRUE, laneFiles) IN
        /\ laneFiles' = c.files
        /\ lane' = [lane EXCEPT ![l].index = c.index, ![l].pc = "ready"]
    /\ UNCHANGED <<laneCaptured, laneNow, laneDebug>>

\* world.ts 229-244 in lane l
LaneBefore(l) ==
    /\ lane[l].pc = "ready"
    /\ Started(lane, Lanes) < MaxLaneScenarios
    /\ \E o \in OpenOutcomes :
        LET ob == openBrowser(o)
            name == LaneScenario(Started(lane, Lanes) + 1)
            ls == SetParameters(lane, l,
                      BeforeParams([lane[l].parameters EXCEPT !.stepIndex = 0], name))
        IN lane' = [ls EXCEPT ![l].name = name,
                              ![l].afterSteps = 0,
                              ![l].status = IF ob.threw THEN "FAILED" ELSE "PASSED",
                              ![l].scenarios = @ + 1,
                              ![l].page = ob.world.page,
                              ![l].pageUsable = ob.pageUsable,
                              ![l].last = NoLast,
                              ![l].pc = IF ob.threw THEN "finishing" ELSE "running"]
    /\ UNCHANGED <<laneFiles, laneCaptured, laneNow, laneDebug>>

\* the page of lane l closes or crashes
LanePageCloses(l) ==
    /\ lane[l].pc \in {"running", "finishing"}
    /\ lane[l].pageUsable
    /\ lane' = [lane EXCEPT ![l].pageUsable = FALSE]
    /\ UNCHANGED <<laneFiles, laneCaptured, laneNow, laneDebug>>

LaneClock == laneNow..MaxLaneClock

\* world.ts 246-266 in lane l, with takeScreenshotForStep (187-213)
LaneAfterStep(l) ==
    /\ lane[l].pc = "running"
    /\ lane[l].afterSteps < MaxLaneSteps
    /\ \E status \in StepStatuses, t \in LaneClock :
        LET text  == StepText(lane[l].afterSteps + 1)
            ls    == SetParameters(lane, l, AfterStepParams(lane[l].parameters, status))
            p1    == ls[l].parameters
            sname == OrElse(p1.scenarioName, UnknownScenario)
            shot  == IF ShouldCapture(status, laneDebug)
                     THEN takeScreenshotForStep(
                              [FreshWorld EXCEPT !.page = lane[l].page],
                              [NoEnv EXCEPT !.pageUsable = lane[l].pageUsable],
                              p1, OrElse(text, UnknownStep), sname, t)
                     ELSE NoShot
            threw == shot.result = "threw"
            wrote == shot.result = "path"
            worst == IF status = "FAILED" \/ threw THEN "FAILED"
                     ELSE IF status = "SKIPPED" THEN "SKIPPED" ELSE lane[l].status
        IN
        /\ lane' = [ls EXCEPT
              ![l].afterSteps = @ + 1,
              ![l].status = worst,
              ![l].index = IF wrote
                           THEN MapSet(@, shot.key,
                                    [ stepName |-> OrElse(text, UnknownStep),
                                      scenarioName |-> sname,
                                      path |-> shot.file,
                                      stepIndex |-> shot.stepIndex ])
                           ELSE @,
              ![l].last = IF wrote
                          THEN [captured |-> TRUE, stepIndex |-> shot.stepIndex,
                                scenarioName |-> sname]
                          ELSE NoLast,
              ![l].pc = IF worst = "PASSED" THEN "running" ELSE "finishing"]
        /\ laneFiles' = IF wrote THEN laneFiles \cup {shot.file} ELSE laneFiles
        /\ laneCaptured' = IF wrote THEN laneCaptured \cup {shot.file} ELSE laneCaptured
        /\ laneNow' = IF wrote THEN t ELSE laneNow
    /\ UNCHANGED laneDebug

\* world.ts 268-301 in lane l: the scenario-level screenshot of a failed
\* scenario (170-185), then the release of the browser
LaneAfter(l) ==
    /\ lane[l].pc \in {"running", "finishing"}
    /\ \E t \in LaneClock :
        LET ls    == SetParameters(lane, l,
                         [lane[l].parameters EXCEPT !.scenarioName = lane[l].name])
            shot  == IF lane[l].status = "FAILED"
                     THEN takeScreenshot(
                              [FreshWorld EXCEPT !.page = lane[l].page],
                              [NoEnv EXCEPT !.pageUsable = lane[l].pageUsable],
                              lane[l].name, t)
                     ELSE NoShot
            wrote == shot.result = "path"
        IN
        /\ lane' = [ls EXCEPT ![l].pageUsable = FALSE, ![l].pc = "ready"]
        /\ laneFiles' = IF wrote THEN laneFiles \cup {shot.file} ELSE laneFiles
        /\ laneCaptured' = IF wrote THEN laneCaptured \cup {shot.file} ELSE laneCaptured
        /\ laneNow' = IF wrote THEN t ELSE laneNow
    /\ UNCHANGED laneDebug

LaneNext ==
    /\ \E l \in Lanes :
          \/ LaneBeforeAll(l)
          \/ LaneBefore(l)
          \/ LanePageCloses(l)
          \/ LaneAfterStep(l)
          \/ LaneAfter(l)
    /\ UNCHANGED helperVars
    /\ UNCHANGED hookVars
    /\ UNCHANGED reportVars
    /\ UNCHANGED <<clickVars, stableVars>>

SpecLanes == LaneInit /\ [][LaneNext]_vars

\* C24: every screenshot captured during the run is still in
\* reports/screenshots, at every moment of the run and at its end, also with
\* two parallel lanes.
C24_NoCaptureDeleted == laneCaptured \subseteq laneFiles

\* C25: the index a lane sees is the number of AfterStep invocations of its
\* own current scenario and the name it sees is its own scenario's, whatever
\* the other lane does; a capture records that index and that name.
C25_TrackingPerLane ==
    \A l \in Lanes :
        /\ lane[l].pc \in {"running", "finishing"} =>
              /\ lane[l].parameters.stepIndex = lane[l].afterSteps
              /\ lane[l].parameters.scenarioName = lane[l].name
        /\ lane[l].last.captured =>
              /\ lane[l].last.stepIndex = lane[l].afterSteps
              /\ lane[l].last.scenarioName = lane[l].name

\* lane 1 captures at its first step after lane 2 has started another
\* scenario, of which no step has ended
C25_Witness ==
    /\ lane[1].last.captured
    /\ lane[1].last.stepIndex = 1
    /\ lane[1].last.scenarioName = LaneScenario(1)
    /\ lane[2].pc = "running"
    /\ lane[2].afterSteps = 0
    /\ lane[2].parameters.scenarioName = LaneScenario(2)

-----------------------------------------------------------------------------
(* TestHelpers.safeClick, testHelpers.ts 111-124, one await at a time *)

\* the largest retries argument; the default of the parameter is 3
MaxRetries == 4

\* the retries argument: a negative number, zero, or up to MaxRetries
RetryValues == (0 - 1)..MaxRetries

ClickInit ==
    /\ HelpersAtRest
    /\ HooksAtRest
    /\ ReportAtRest
    /\ LanesAtRest
    /\ StableAtRest
    /\ \E r \in RetryValues :
        click = [ pc |-> "test", retries |-> r, i |-> 0, attempts |-> 0, clicks |-> 0,
                  caught |-> NoCaught, result |-> "none", thrown |-> NoCaught ]

\* line 112: i < retries
LoopEnters(c) == c.i < c.retries

\* lines 119-122: the catch block after the await named `at` rejected
Caught(c, at) ==
    LET e == [attempt |-> c.i + 1, at |-> at] IN
    IF c.i = c.retries - 1
    THEN [c EXCEPT !.caught = e, !.thrown = e, !.result = "threw", !.pc = "done"]
    ELSE [c EXCEPT !.caught = e, !.pc = "pause"]

\* line 112: the loop test; leaving the loop is a normal return (line 124)
SafeClickTest ==
    /\ click.pc = "test"
    /\ click' = IF LoopEnters(click)
                THEN [click EXCEPT !.attempts = @ + 1, !.pc = "waitFor"]
                ELSE [click EXCEPT !.result = "returned", !.pc = "done"]

\* line 115: await element.waitFor({ state: 'visible' })
SafeClickWaitFor ==
    /\ click.pc = "waitFor"
    /\ \E ok \in BOOLEAN :
        click' = IF ok THEN [click EXCEPT !.pc = "stable"] ELSE Caught(click, "waitFor")

\* line 116: await this.waitForElementStable(page, selector)
SafeClickStable ==
    /\ click.pc = "stable"
    /\ \E ok \in BOOLEAN :
        click' = IF ok THEN [click EXCEPT !.pc = "click"] ELSE Caught(click, "stable")

\* lines 117-118: await element.click(); return
SafeClickClick ==
    /\ click.pc = "click"
    /\ \E ok \in BOOLEAN :
        click' = IF ok
                 THEN [click EXCEPT !.clicks = @ + 1, !.result = "returned", !.pc = "done"]
                 ELSE Caught(click, "click")

\* line 121: await page.waitForTimeout(1000), which rejects when the page
\* has been closed; then i++
SafeClickPause ==
    /\ click.pc = "pause"
    /\ \E ok \in BOOLEAN :
        click' = IF ok
                 THEN [click EXCEPT !.i = @ + 1, !.pc = "test"]
                 ELSE [click EXCEPT !.thrown = [attempt |-> click.i + 1, at |-> "pause"],
                                    !.result = "threw", !.pc = "done"]

ClickNext ==
    /\ \/ SafeClickTest
       \/ SafeClickWaitFor
       \/ SafeClickStable
       \/ SafeClickClick
       \/ SafeClickPause
    /\ UNCHANGED helperVars
    /\ UNCHANGED hookVars
    /\ UNCHANGED reportVars
    /\ UNCHANGED <<laneVars, stableVars>>

SpecClick == ClickInit /\ [][ClickNext]_vars

\* C27: for every value of retries, safeClick returns normally only after
\* one click has succeeded, makes at most `retries` attempts, stops at the
\* first successful one, and when every attempt failed it throws the error
\* of the last attempt.
C27_ReturnsOnlyAfterClick ==
    /\ click.result = "returned" => click.clicks = 1
    /\ click.clicks <= 1
    /\ click.attempts <= click.retries \/ click.attempts = 0
    /\ (click.result = "threw" /\ click.thrown.at # "pause")
          => /\ click.attempts = click.retries
             /\ click.thrown = click.caught
             /\ click.thrown.attempt = click.retries

-----------------------------------------------------------------------------
(* TestHelpers.waitForElementStable, testHelpers.ts 88-106, one await at a *)
(* time.  A bounding box is reduced to its x and y.                        *)

\* the largest coordinate of a sampled box
MaxCoord == 1

\* line 98: attempts < 10
MaxAttempts == 10

Coords == 0..MaxCoord

\* what element.boundingBox() can resolve with
Boxes == {NullBox} \cup { [null |-> FALSE, x |-> x, y |-> y] : x \in Coords, y \in Coords }

StableInit ==
    /\ HelpersAtRest
    /\ HooksAtRest
    /\ ReportAtRest
    /\ LanesAtRest
    /\ ClickAtRest
    /\ stable = [ pc |-> "waitFor", previousBox |-> NullBox, currentBox |-> NullBox,
                  attempts |-> 0, samples |-> 0, result |-> "none" ]

\* Faulty variant: the loop runs while attempts <= 10
Continues_OneMore(st) ==
    /\ st.attempts <= MaxAttempts
    /\ ~st.previousBox.null
    /\ ~st.currentBox.null
    /\ (st.previousBox.x # st.currentBox.x \/ st.previousBox.y # st.currentBox.y)

\* lines 98-100: the loop condition
Continues(st) ==
    /\ st.attempts < MaxAttempts
    /\ ~st.previousBox.null
    /\ ~st.currentBox.null
    /\ (st.previousBox.x # st.currentBox.x \/ st.previousBox.y # st.currentBox.y)

\* line 90: await element.waitFor({ state: 'visible' }), which rejects on timeout
StableWaitFor ==
    /\ stable.pc = "waitFor"
    /\ \E ok \in BOOLEAN :
        stable' = IF ok THEN [stable EXCEPT !.pc = "first"]
                  ELSE [stable EXCEPT !.result = "threw", !.pc = "done"]

\* lines 93-94: the first sample, then the pause of 100 ms
StableFirst ==
    /\ stable.pc = "first"
    /\ \E b \in Boxes :
        stable' = [stable EXCEPT !.previousBox = b, !.samples = @ + 1, !.pc = "second"]

\* lines 95-97: the second sample; attempts = 0
StableSecond ==
    /\ stable.pc = "second"
    /\ \E b \in Boxes :
        stable' = [stable EXCEPT !.currentBox = b, !.samples = @ + 1,
                                 !.attempts = 0, !.pc = "loop"]

\* lines 98-105: the loop test, and either one more iteration or the return
StableLoop ==
    /\ stable.pc = "loop"
    /\ IF Continues(stable)
       THEN \E b \in Boxes :
               stable' = [stable EXCEPT !.previousBox = stable.currentBox,
                                        !.currentBox = b,
                                        !.samples = @ + 1,
                                        !.attempts = @ + 1]
       ELSE stable' = [stable EXCEPT !.result = "returned", !.pc = "done"]

StableNext ==
    /\ \/ StableWaitFor
       \/ StableFirst
       \/ StableSecond
       \/ StableLoop
    /\ UNCHANGED helperVars
    /\ UNCHANGED hookVars
    /\ UNCHANGED reportVars
    /\ UNCHANGED <<laneVars, clickVars>>

\* every page call of the function settles, so the function takes its next step
SpecStable == StableInit /\ [][StableNext]_vars /\ WF_vars(StableNext)

\* the last two samples end the wait: same x and y, or one of them is null
Settled(st) ==
    \/ st.previousBox.null
    \/ st.currentBox.null
    \/ (st.previousBox.x = st.currentBox.x /\ st.previousBox.y = st.currentBox.y)

\* C30: waitForElementStable terminates; it takes at most 10 samples after
\* the first two; and once two consecutive samples have the same x and y, or
\* a sample is null, its next step is the return, with no further sample.
C30_StableTerminates ==
    /\ <>(stable.pc = "done")
    /\ [](stable.samples <= 2 + MaxAttempts /\ stable.attempts <= MaxAttempts)
    /\ [][ (stable.pc = "loop" /\ Settled(stable))
              => (stable'.result = "returned" /\ stable'.samples = stable.samples) ]_vars
    /\ [](stable.result = "returned" =>
              (Settled(stable) \/ stable.attempts = MaxAttempts))

\* the element kept moving: the wait returned after the twelfth sample
C30_Witness ==
    /\ stable.result = "returned"
    /\ stable.samples = 2 + MaxAttempts
    /\ ~Settled(stable)

====
